---- MODULE Spec2Model ----
(***************************************************************************)
(* Model of src/app.py: the LINE webhook endpoint (callback), the text     *)
(* handler (handle_message), the image handler (handle_image) and its      *)
(* detached thread (async_job).  One webhook delivery carrying a sequence  *)
(* of events is processed by one request worker; every image event spawns  *)
(* a thread that runs concurrently with the worker and with other threads. *)
(* Every external call (LINE reply/push/content, OpenAI chat completion,   *)
(* temp-file I/O) is one step whose outcome is chosen nondeterministically.*)
(***************************************************************************)
EXTENDS Naturals, Sequences, FiniteSets

\* ------------------------------------------------------------------ bounds

\* Largest number of events carried by the webhook delivery.
MaxEvents == 2

\* Longest text given to make_bubble_chunks, and largest max_chars.
MaxTextLen == 5
MaxLimit == 4

\* ------------------------------------------------------------ value spaces

\* event.source.user_id values.
Users == {"U1", "U2"}

\* Texts are sequences of characters.  A run of characters that no operation
\* of the program looks into is written as one element: a fixed literal, a
\* word of input.  The whitespace characters are elements of their own.
WS == {" ", "\n"}

\* event.message.text of the text events: each user sends a text of their
\* own, with whitespace around it.
Texts == [u \in Users |->
            IF u = "U1" THEN <<"tamago, kome", " ">> ELSE <<"\n", "niku">>]

\* Values of the X-Line-Signature header: absent, not base64, a well-formed
\* digest of another body, and the digest of this body under the secret.
Headers == {"absent", "not_base64", "digest_other", "digest_body"}

\* The prompt text of lines 105-108 and 138-142, up to the materials.
PROMPT_HEAD == "ika no zairyo de tsukureru recipe wo ikko dake kangaete. zairyo: "
\* The question of the vision call, line 95.
VISION_PROMPT == "kono gazou no naka ni aru shokuzai wo list up shite"

\* The content client.chat.completions.create returns for a prompt.  The
\* service is a black box: its answer is written as the prompt it answers
\* between brackets, with the surrounding whitespace a completion may have.
RecipeCompletion(prompt) == <<"\n", "recipe for <">> \o prompt \o <<">", " ">>
VisionCompletion(prompt) == <<" ", "shokuzai of <">> \o prompt \o <<">", "\n">>

\* Outcomes of reply_message: it raises LineBotApiError on a platform
\* rejection (token invalid, expired or used), and the underlying HTTP client
\* raises its own exceptions (timeouts, connection errors), which are not
\* LineBotApiError.  handle_image tells the two apart.
ReplyOutcomes == {"ok", "LineBotApiError", "Exception"}
\* Outcomes of push_message: no caller tells its exceptions apart.
PushOutcomes == {"ok", "LineBotApiError"}
\* Outcomes of the other external calls: they return or raise.
CallOutcomes == {"ok", "Exception"}

\* The fixed texts of src/app.py (ASCII stand-ins of the literals).
\* line 134: the acknowledgment of handle_message
TEXT_ACK == <<"ack: zairyo mitayo, ima kawaii recipe tsukutterune">>
\* line 175: the acknowledgment of handle_image
IMAGE_ACK == <<"ack: recipe kangaechuu dayo, chotto mattetene">>
\* line 121: the fallback of generate_recipe_from_ingredients
GENERATION_APOLOGY == <<"gomennasai, recipe no seiseichuu ni error ga hassei shichatta">>
\* line 165: the apology of handle_message's except branch
HANDLER_APOLOGY == <<"ehehe, recipe no seisei de chotto occhoko shichattano">>

\* ------------------------------------------------------------------- state

VARIABLES
    bypass,     \* os.getenv("DISABLE_SIGNATURE_CHECK") == "true"
    header,     \* the request's X-Line-Signature header
    events,     \* the events of the request body, in order
    wpc,        \* position of the request worker
    cur,        \* index of the event being dispatched by handler.handle
    response,   \* HTTP status of the response; 0 while none has been sent
    invoked,    \* indexes of the events whose handler has been called
    wmsgs,      \* handle_message: messages still to push (the for loop)
    calls,      \* per event, the external calls made for it, in order
    tpc,        \* per event, position of its async_job thread
    tingr,      \* per event, async_job's local `ingredients`
    tmsgs,      \* per event, async_job's messages still to push
    tmpfiles,   \* the temp directory: for each path, the content of the file
                \* there, or NoFile
    ctext,      \* the text given to make_bubble_chunks and the builder
    climit,     \* the max_chars given to them
    cpc,        \* position of the chunking run
    bubbles,    \* the list make_bubble_chunks returned
    built       \* the list build_recipe_messages returned

vars == <<bypass, header, events, wpc, cur, response, invoked, wmsgs, calls,
          tpc, tingr, tmsgs, tmpfiles, ctext, climit, cpc, bubbles, built>>

request == <<bypass, header, events>>
worker == <<wpc, cur, response, invoked, wmsgs>>
threads == <<tpc, tingr, tmsgs, tmpfiles>>
chunker == <<ctext, climit, cpc, bubbles, built>>

\* ---------------------------------------------------------------- helpers

ReplyTokens == <<"tok1", "tok2", "tok3", "tok4">>
MessageIds == <<"mid1", "mid2", "mid3", "mid4">>

\* The binary content the platform holds for each message id.
Contents == <<"jpeg1", "jpeg2", "jpeg3", "jpeg4">>

\* One fixed file name used by every thread.
TmpPaths_Same == <<"tmp1.jpg", "tmp1.jpg", "tmp1.jpg", "tmp1.jpg">>

\* The names NamedTemporaryFile gives the files of the threads: a fresh
\* name for each call.
TmpPaths == <<"tmp1.jpg", "tmp2.jpg", "tmp3.jpg", "tmp4.jpg">>

AllPaths == {TmpPaths[k] : k \in 1..Len(TmpPaths)}

\* The content of a path that holds no file.
NoFile == "no file"

\* The shapes an event of the body can have.  Events that are neither text
\* nor image messages (follow, sticker, ...) are "other".
EventShapes ==
    {[kind |-> "text", user_id |-> u, text |-> Texts[u]] : u \in Users}
        \cup [kind : {"image"}, user_id : Users, text : {<<>>}]
        \cup [kind : {"other"}, user_id : {"U1"}, text : {<<>>}]

\* The parsed event at position i: every event carries its own reply token
\* and message id.
MkEvent(shape, i) ==
    [kind |-> shape.kind, user_id |-> shape.user_id, text |-> shape.text,
     reply_token |-> ReplyTokens[i], message_id |-> MessageIds[i]]

Bodies ==
    UNION {{[i \in 1..n |-> MkEvent(s[i], i)] : s \in [1..n -> EventShapes]}
           : n \in 0..MaxEvents}

Idx == 1..Len(events)

\* An external call: the operation, what it is addressed to (a reply token,
\* a user id, a message id, a file path or a model), the text sent or
\* returned, its outcome and, for a generation call, the prompt.
Call(op, to, text, res) ==
    [op |-> op, to |-> to, text |-> text, res |-> res, prompt |-> <<>>]

GenCall(op, to, prompt, text, res) ==
    [op |-> op, to |-> to, text |-> text, res |-> res, prompt |-> prompt]

\* str.strip(): the text without its leading and trailing whitespace.
RECURSIVE lstrip(_)
lstrip(s) == IF s # <<>> /\ Head(s) \in WS THEN lstrip(Tail(s)) ELSE s

RECURSIVE rstrip(_)
rstrip(s) ==
    IF s # <<>> /\ s[Len(s)] \in WS THEN rstrip(SubSeq(s, 1, Len(s) - 1)) ELSE s

strip(s) == rstrip(lstrip(s))

Log(i, c) == [calls EXCEPT ![i] = Append(@, c)]

\* TextSendMessage(text=...)
TextSendMessage(text) == [type |-> "text", text |-> text]

\* The default of build_recipe_messages' max_chars parameter.
DEFAULT_MAX_CHARS == 5000

\* A builder that sends the recipe text as two messages.
build_recipe_messages_Two(recipe_text, max_chars) ==
    <<TextSendMessage(recipe_text), TextSendMessage(recipe_text)>>

\* build_recipe_messages: one text message holding the whole recipe text,
\* whatever max_chars is.
build_recipe_messages(recipe_text, max_chars) == <<TextSendMessage(recipe_text)>>

\* The signature the platform computes for this body.
ExpectedSignature == "digest_body"

\* request.headers.get("X-Line-Signature", "")
signature == IF header = "absent" THEN "" ELSE header

\* A validation that accepts every signature that is present.
SignatureValid_AnyPresent(sig) == sig # ""

\* The validation handler.handle performs before it parses the body.
SignatureValid(sig) == sig = ExpectedSignature

\* ------------------------------------------------------------------- Init

Init ==
    /\ bypass \in BOOLEAN
    /\ header \in Headers
    /\ events \in Bodies
    /\ wpc = "callback"
    /\ cur = 1
    /\ response = 0
    /\ invoked = {}
    /\ wmsgs = <<>>
    /\ calls = [i \in 1..Len(events) |-> <<>>]
    /\ tpc = [i \in 1..Len(events) |-> "none"]
    /\ tingr = [i \in 1..Len(events) |-> <<>>]
    /\ tmsgs = [i \in 1..Len(events) |-> <<>>]
    /\ tmpfiles = [p \in AllPaths |-> NoFile]
    /\ ctext = <<>>
    /\ climit = 0
    /\ cpc = "off"
    /\ bubbles = <<>>
    /\ built = <<>>

\* --------------------------------------------------------------- callback

\* The request ends with an HTTP status.
Respond(status) ==
    /\ wpc' = "done"
    /\ response' = status

\* An exception leaves the handler of the current event: handler.handle
\* does not catch it, callback catches only InvalidSignatureError, and the
\* framework answers 500.  The remaining events are not dispatched.
HandlerRaises ==
    /\ Respond(500)
    /\ UNCHANGED <<cur, invoked, wmsgs>>

\* The handler of the current event returns: handler.handle goes on with
\* the next event.
HandlerReturns ==
    /\ wpc' = "dispatch"
    /\ cur' = cur + 1
    /\ UNCHANGED <<response, invoked, wmsgs>>

\* callback, up to the signature validation inside handler.handle.  With
\* the bypass flag the call is made outside any try, so InvalidSignatureError
\* is unhandled; without it the error is turned into abort(400).
callback ==
    /\ wpc = "callback"
    /\ IF SignatureValid(signature)
       THEN /\ wpc' = "dispatch"
            /\ UNCHANGED response
       ELSE IF bypass THEN Respond(500) ELSE Respond(400)
    /\ UNCHANGED <<chunker, request, cur, invoked, wmsgs, calls, threads>>

\* handler.handle's loop over the parsed events: each event goes to the
\* handler registered for its kind; other kinds are skipped.  After the last
\* event callback returns "OK".
dispatch ==
    /\ wpc = "dispatch"
    /\ IF cur > Len(events)
       THEN /\ Respond(200)
            /\ UNCHANGED <<cur, invoked>>
       ELSE /\ UNCHANGED response
            /\ CASE events[cur].kind = "text" ->
                        /\ wpc' = "handle_message"
                        /\ invoked' = invoked \cup {cur}
                        /\ UNCHANGED cur
                 [] events[cur].kind = "image" ->
                        /\ wpc' = "handle_image"
                        /\ invoked' = invoked \cup {cur}
                        /\ UNCHANGED cur
                 [] OTHER ->
                        /\ wpc' = "dispatch"
                        /\ cur' = cur + 1
                        /\ UNCHANGED invoked
    /\ UNCHANGED <<chunker, request, wmsgs, calls, threads>>

\* --------------------------------------------------------- handle_message

\* The calls handle_message makes.
handle_message_ack(ev, res) ==
    Call("reply_message", ev.reply_token, TEXT_ACK, res)

handle_message_send(ev, msg, res) ==
    Call("push_message", ev.user_id, msg.text, res)

\* The apology sent with the reply token instead of by push.
handle_message_apology_ByReply(ev, res) ==
    Call("reply_message", ev.reply_token, HANDLER_APOLOGY, res)

handle_message_apology(ev, res) ==
    Call("push_message", ev.user_id, HANDLER_APOLOGY, res)

\* lines 128 and 138-142: user_text and the prompt made of it.
handle_message_prompt(ev) == <<PROMPT_HEAD>> \o strip(ev.text)

\* A handler that generates without acknowledging first.
handle_message_reply_Skipped ==
    /\ wpc = "handle_message"
    /\ wpc' = "handle_message_generate"
    /\ UNCHANGED <<chunker, request, calls, cur, response, invoked, wmsgs,
                   threads>>

\* lines 130-135: the acknowledgment, inside the try.  Any exception goes to
\* the except branch.
handle_message_reply ==
    /\ wpc = "handle_message"
    /\ \E res \in ReplyOutcomes :
        /\ calls' = Log(cur, handle_message_ack(events[cur], res))
        /\ wpc' = IF res = "ok" THEN "handle_message_generate"
                                ELSE "handle_message_except"
    /\ UNCHANGED <<chunker, request, cur, response, invoked, wmsgs, threads>>

\* lines 138-153: the chat completion and build_recipe_messages.
handle_message_generate ==
    /\ wpc = "handle_message_generate"
    /\ \E res \in CallOutcomes :
        LET prompt == handle_message_prompt(events[cur])
            content == RecipeCompletion(prompt)
        IN  IF res # "ok"
            THEN /\ calls' = Log(cur, GenCall("chat_recipe", "gpt-4", prompt,
                                              <<>>, res))
                 /\ wpc' = "handle_message_except"
                 /\ UNCHANGED wmsgs
            ELSE /\ calls' = Log(cur, GenCall("chat_recipe", "gpt-4", prompt,
                                              content, res))
                 /\ wmsgs' = build_recipe_messages(strip(content),
                                                   DEFAULT_MAX_CHARS)
                 /\ wpc' = "handle_message_push"
    /\ UNCHANGED <<chunker, request, cur, response, invoked, threads>>

\* lines 156-158: one iteration of the push loop.  A failing push leaves
\* the loop for the except branch; after the last message the handler
\* returns.
handle_message_push ==
    /\ wpc = "handle_message_push"
    /\ wmsgs # <<>>
    /\ \E res \in PushOutcomes :
        /\ calls' = Log(cur, handle_message_send(events[cur], Head(wmsgs), res))
        /\ IF res # "ok"
           THEN /\ wpc' = "handle_message_except"
                /\ wmsgs' = <<>>
                /\ UNCHANGED <<cur, response, invoked>>
           ELSE IF Tail(wmsgs) = <<>>
           THEN /\ wmsgs' = <<>>
                /\ wpc' = "dispatch"
                /\ cur' = cur + 1
                /\ UNCHANGED <<response, invoked>>
           ELSE /\ wmsgs' = Tail(wmsgs)
                /\ UNCHANGED <<wpc, cur, response, invoked>>
    /\ UNCHANGED <<chunker, request, threads>>

\* lines 160-166: the except branch pushes the handler's apology.  The push
\* is not guarded: if it raises, the exception leaves the handler.
handle_message_except ==
    /\ wpc = "handle_message_except"
    /\ \E res \in PushOutcomes :
        /\ calls' = Log(cur, handle_message_apology(events[cur], res))
        /\ IF res = "ok" THEN HandlerReturns ELSE HandlerRaises
    /\ UNCHANGED <<chunker, request, threads>>

\* ----------------------------------------------------------- handle_image

handle_image_ack(ev, res) ==
    Call("reply_message", ev.reply_token, IMAGE_ACK, res)

\* lines 172-178: the acknowledgment.  Only LineBotApiError is caught; any
\* other exception leaves the handler before the thread is created.
handle_image_reply ==
    /\ wpc = "handle_image"
    /\ \E res \in ReplyOutcomes :
        /\ calls' = Log(cur, handle_image_ack(events[cur], res))
        /\ IF res = "Exception"
           THEN HandlerRaises
           ELSE /\ wpc' = "handle_image_start"
                /\ UNCHANGED <<cur, response, invoked, wmsgs>>
    /\ UNCHANGED <<chunker, request, threads>>

\* The thread started and joined: the handler returns when async_job has
\* ended.
handle_image_start_Join ==
    /\ wpc = "handle_image_start"
    /\ IF tpc[cur] = "none"
       THEN /\ tpc' = [tpc EXCEPT ![cur] = "tmpfile"]
            /\ UNCHANGED worker
       ELSE /\ tpc[cur] = "done"
            /\ HandlerReturns
            /\ UNCHANGED tpc
    /\ UNCHANGED <<chunker, request, calls, tingr, tmsgs, tmpfiles>>

\* line 201: threading.Thread(target=async_job).start(); the handler
\* returns without joining the thread.
handle_image_start ==
    /\ wpc = "handle_image_start"
    /\ tpc' = [tpc EXCEPT ![cur] = "tmpfile"]
    /\ HandlerReturns
    /\ UNCHANGED <<chunker, request, calls, tingr, tmsgs, tmpfiles>>

\* -------------------------------------------------------------- async_job

\* What leaving the `with tempfile.NamedTemporaryFile(delete=False)` block
\* does to the files on disk: the file is closed and, with delete=False,
\* kept.
WithExit(files, i) == files

\* generate_recipe_from_ingredients: the completion's text, or the fixed
\* string when the call raises.
generate_recipe_from_ingredients(res, content) ==
    IF res # "ok" THEN GENERATION_APOLOGY ELSE strip(content)

\* lines 105-108: the prompt of generate_recipe_from_ingredients.
generate_recipe_prompt(ingredients) == <<PROMPT_HEAD>> \o ingredients

\* get_message_content(message_id): the content the platform holds for it.
ContentOf(message_id) ==
    Contents[CHOOSE k \in 1..Len(MessageIds) : MessageIds[k] = message_id]

async_job_send(ev, msg, res) ==
    Call("push_message", ev.user_id, msg.text, res)

\* Every exception inside async_job is caught by line 198 and printed: the
\* thread ends.
JobEnds(i) == tpc' = [tpc EXCEPT ![i] = "done"]

\* line 185: the temp file is created.
async_job_tmpfile(i) ==
    /\ tpc[i] = "tmpfile"
    /\ \E res \in CallOutcomes :
        /\ calls' = Log(i, Call("NamedTemporaryFile", TmpPaths[i], <<>>, res))
        /\ IF res = "ok"
           THEN /\ tmpfiles' = [tmpfiles EXCEPT ![TmpPaths[i]] = ""]
                /\ tpc' = [tpc EXCEPT ![i] = "get_message_content"]
           ELSE /\ JobEnds(i)
                /\ UNCHANGED tmpfiles
    /\ UNCHANGED <<chunker, request, worker, tingr, tmsgs>>

\* line 186: the content fetch, inside the with block.
async_job_get_content(i) ==
    /\ tpc[i] = "get_message_content"
    /\ \E res \in CallOutcomes :
        /\ calls' = Log(i, Call("get_message_content", events[i].message_id,
                                <<>>, res))
        /\ IF res = "ok"
           THEN /\ tpc' = [tpc EXCEPT ![i] = "iter_content"]
                /\ UNCHANGED tmpfiles
           ELSE /\ JobEnds(i)
                /\ tmpfiles' = WithExit(tmpfiles, i)
    /\ UNCHANGED <<chunker, request, worker, tingr, tmsgs>>

\* lines 187-189: the stream is read and written to the file; the with
\* block ends.
async_job_write(i) ==
    /\ tpc[i] = "iter_content"
    /\ \E res \in CallOutcomes :
        /\ calls' = Log(i, Call("iter_content", events[i].message_id, <<>>, res))
        /\ tpc' = [tpc EXCEPT ![i] = IF res = "ok" THEN "detect" ELSE "done"]
        /\ tmpfiles' = WithExit(
                IF res = "ok"
                THEN [tmpfiles EXCEPT ![TmpPaths[i]] =
                                            ContentOf(events[i].message_id)]
                ELSE tmpfiles, i)
    /\ UNCHANGED <<chunker, request, worker, tingr, tmsgs>>

\* line 191: detect_ingredients_from_image reads the file back and makes
\* the vision call.  Reading a file that is gone raises.
async_job_detect(i) ==
    /\ tpc[i] = "detect"
    /\ \E res \in CallOutcomes :
        LET image == tmpfiles[TmpPaths[i]]
            prompt == <<VISION_PROMPT, image>>
            content == VisionCompletion(<<image>>)
        IN  /\ res = "ok" => image # NoFile
            /\ IF res # "ok"
               THEN /\ calls' = Log(i, GenCall("chat_vision", TmpPaths[i],
                                               prompt, <<>>, res))
                    /\ JobEnds(i)
                    /\ UNCHANGED tingr
               ELSE /\ calls' = Log(i, GenCall("chat_vision", TmpPaths[i],
                                               prompt, content, res))
                    /\ tingr' = [tingr EXCEPT ![i] = strip(content)]
                    /\ tpc' = [tpc EXCEPT ![i] = "recipe"]
    /\ UNCHANGED <<chunker, request, worker, tmsgs, tmpfiles>>

\* lines 192-193: generate_recipe_from_ingredients and
\* build_recipe_messages.  The generation error is caught inside
\* generate_recipe_from_ingredients.
async_job_recipe(i) ==
    /\ tpc[i] = "recipe"
    /\ \E res \in CallOutcomes :
        LET prompt == generate_recipe_prompt(tingr[i])
            content == IF res = "ok" THEN RecipeCompletion(prompt) ELSE <<>>
        IN  /\ calls' = Log(i, GenCall("chat_recipe", "gpt-4", prompt, content,
                                       res))
            /\ tmsgs' = [tmsgs EXCEPT ![i] =
                    build_recipe_messages(
                        generate_recipe_from_ingredients(res, content),
                        DEFAULT_MAX_CHARS)]
            /\ tpc' = [tpc EXCEPT ![i] = "push"]
    /\ UNCHANGED <<chunker, request, worker, tingr, tmpfiles>>

\* lines 195-196: one iteration of the push loop.
async_job_push(i) ==
    /\ tpc[i] = "push"
    /\ tmsgs[i] # <<>>
    /\ \E res \in PushOutcomes :
        /\ calls' = Log(i, async_job_send(events[i], Head(tmsgs[i]), res))
        /\ IF res = "ok" /\ Tail(tmsgs[i]) # <<>>
           THEN /\ tmsgs' = [tmsgs EXCEPT ![i] = Tail(@)]
                /\ UNCHANGED tpc
           ELSE /\ tmsgs' = [tmsgs EXCEPT ![i] = <<>>]
                /\ JobEnds(i)
    /\ UNCHANGED <<chunker, request, worker, tingr, tmpfiles>>

\* ------------------------------------------------------------------- Next

Next ==
    \/ callback
    \/ dispatch
    \/ handle_message_reply
    \/ handle_message_generate
    \/ handle_message_push
    \/ handle_message_except
    \/ handle_image_reply
    \/ handle_image_start
    \/ \E i \in Idx : async_job_tmpfile(i)
    \/ \E i \in Idx : async_job_get_content(i)
    \/ \E i \in Idx : async_job_write(i)
    \/ \E i \in Idx : async_job_detect(i)
    \/ \E i \in Idx : async_job_recipe(i)
    \/ \E i \in Idx : async_job_push(i)

Spec == Init /\ [][Next]_vars

\* ----------------------------------------------------- make_bubble_chunks

\* The sentence delimiter of line 49 (the full-width period).
DELIM == "."

\* The characters of the texts given to the chunker.
Chars == {"a", " ", "\n", DELIM}

TextsUpTo(n) == UNION {[1..k -> Chars] : k \in 0..n}

\* text.replace("\n", " ")
replace_newlines(text) ==
    [k \in 1..Len(text) |-> IF text[k] = "\n" THEN " " ELSE text[k]]

\* str.split(sep) for a separator of one character: the pieces between the
\* separators, the empty ones included.
RECURSIVE split(_, _)
split(s, sep) ==
    IF \E k \in 1..Len(s) : s[k] = sep
    THEN LET k == CHOOSE k \in 1..Len(s) :
                    s[k] = sep /\ \A j \in 1..(k - 1) : s[j] # sep
         IN  <<SubSeq(s, 1, k - 1)>> \o split(SubSeq(s, k + 1, Len(s)), sep)
    ELSE <<s>>

\* A loop body that forgets the unit it closes.
chunk_step_DropsUnit(st, sentence, max_chars) ==
    LET piece == Append(sentence, DELIM) IN
    IF strip(sentence) = <<>> THEN st
    ELSE IF st.current # <<>> /\ Len(st.current) + Len(piece) > max_chars
    THEN [bubbles |-> st.bubbles, current |-> piece]
    ELSE [bubbles |-> st.bubbles, current |-> st.current \o piece]

\* lines 52-60: the body of the loop over the sentences.
chunk_step(st, sentence, max_chars) ==
    LET piece == Append(sentence, DELIM) IN
    IF strip(sentence) = <<>> THEN st
    ELSE IF st.current # <<>> /\ Len(st.current) + Len(piece) > max_chars
    THEN [bubbles |-> Append(st.bubbles, st.current), current |-> piece]
    ELSE [bubbles |-> st.bubbles, current |-> st.current \o piece]

RECURSIVE chunk_loop(_, _, _)
chunk_loop(st, sentences, max_chars) ==
    IF sentences = <<>> THEN st
    ELSE chunk_loop(chunk_step(st, Head(sentences), max_chars),
                    Tail(sentences), max_chars)

\* lines 47-63.
make_bubble_chunks(text, max_chars) ==
    LET sentences == split(replace_newlines(text), DELIM)
        st == chunk_loop([bubbles |-> <<>>, current |-> <<>>], sentences,
                         max_chars)
    IN  IF st.current # <<>> THEN Append(st.bubbles, st.current)
        ELSE st.bubbles

\* The chunker and the builder applied to a text and a limit.
InitChunker ==
    /\ bypass = FALSE
    /\ header = "absent"
    /\ events = <<>>
    /\ wpc = "off"
    /\ cur = 1
    /\ response = 0
    /\ invoked = {}
    /\ wmsgs = <<>>
    /\ calls = <<>>
    /\ tpc = <<>>
    /\ tingr = <<>>
    /\ tmsgs = <<>>
    /\ tmpfiles = [p \in AllPaths |-> NoFile]
    /\ ctext \in TextsUpTo(MaxTextLen)
    /\ climit \in 0..MaxLimit
    /\ cpc = "start"
    /\ bubbles = <<>>
    /\ built = <<>>

chunk ==
    /\ cpc = "start"
    /\ bubbles' = make_bubble_chunks(ctext, climit)
    /\ cpc' = "chunked"
    /\ UNCHANGED <<request, worker, calls, threads, ctext, climit, built>>

build ==
    /\ cpc = "chunked"
    /\ built' = build_recipe_messages(ctext, climit)
    /\ cpc' = "built"
    /\ UNCHANGED <<request, worker, calls, threads, ctext, climit, bubbles>>

NextChunker == chunk \/ build

SpecChunker == InitChunker /\ [][NextChunker]_vars

\* ------------------------------------------------------ reading the calls

SendOps == {"reply_message", "push_message"}
GenerationOps == {"chat_vision", "chat_recipe"}
FetchOps == {"get_message_content", "iter_content"}
ApologyTexts == {GENERATION_APOLOGY, HANDLER_APOLOGY}

CallsOf(i, ops) == SelectSeq(calls[i], LAMBDA c : c.op \in ops)

\* The handler of event i has been called and has returned or raised.
HandlerDone(i) == i \in invoked /\ (cur > i \/ wpc = "done")

\* All processing of event i is over: its handler and, if one was started,
\* its thread.
EventDone(i) == HandlerDone(i) /\ tpc[i] \in {"none", "done"}

\* The acknowledgment of event i was attempted and failed.
AckFailed(i) ==
    /\ calls[i] # <<>>
    /\ calls[i][1].op = "reply_message"
    /\ calls[i][1].res # "ok"

\* The acknowledgment of event i was rejected by the platform (token
\* invalid, expired or already used).
AckRejected(i) == AckFailed(i) /\ calls[i][1].res = "LineBotApiError"

\* Every failure of a LINE call so far is a rejection by the platform.
OnlyPlatformErrors == \A i \in Idx : \A k \in 1..Len(calls[i]) :
    calls[i][k].op \in SendOps => calls[i][k].res \in {"ok", "LineBotApiError"}

\* Some call of the given kinds failed for event i.
Failed(i, ops) == \E k \in 1..Len(calls[i]) :
    calls[i][k].op \in ops /\ calls[i][k].res # "ok"

SignatureInvalid == header # ExpectedSignature

\* The recipe text made from the input of event i alone: from its own text,
\* or from the content of its own image.
ExpectedRecipe(i) ==
    IF events[i].kind = "text"
    THEN strip(RecipeCompletion(<<PROMPT_HEAD>> \o strip(events[i].text)))
    ELSE strip(RecipeCompletion(<<PROMPT_HEAD>> \o
            strip(VisionCompletion(<<ContentOf(events[i].message_id)>>))))

\* --------------------------------------------------------------- claims

\* C1: for every event, its reply token is passed to at most one send call
\* (a reply_message) over the whole processing of the event, the detached
\* thread and the error paths included; every other send for the event is a
\* push_message addressed to the event's source user id.
ReplyTokenUsedAtMostOnce ==
    \A i \in Idx :
        /\ Len(CallsOf(i, {"reply_message"})) <= 1
        /\ \A j \in Idx : \A k \in 1..Len(calls[j]) :
            LET c == calls[j][k] IN
            /\ c.to = events[i].reply_token => c.op = "reply_message" /\ j = i
            /\ (j = i /\ c.op = "reply_message") => c.to = events[i].reply_token
            /\ (j = i /\ c.op = "push_message") => c.to = events[i].user_id

\* C1 witness: a text event whose acknowledgment failed and whose error path
\* then sent by push, and an image event whose thread pushed after the reply.
ReplyThenPushSeen ==
    /\ \E i \in Idx :
        /\ events[i].kind = "text"
        /\ AckFailed(i)
        /\ EventDone(i)
        /\ Len(CallsOf(i, {"push_message"})) = 1
    /\ \E i \in Idx :
        /\ events[i].kind = "image"
        /\ EventDone(i)
        /\ Len(CallsOf(i, {"reply_message"})) = 1
        /\ Len(CallsOf(i, {"push_message"})) = 1

\* C2: with the bypass flag off, a request whose signature is missing,
\* malformed or does not match the body is answered 400 and no handler runs:
\* no reply, push, content fetch or generation call is made for any event.
FailsClosed ==
    (~bypass /\ SignatureInvalid) =>
        /\ invoked = {}
        /\ \A i \in Idx : calls[i] = <<>> /\ tpc[i] = "none"
        /\ tmpfiles = [p \in AllPaths |-> NoFile]
        /\ response \in {0, 400}
        /\ wpc \in {"callback", "done"}
        /\ wpc = "done" => response = 400

\* C2 witness: a request with a bad signature that carries a text and an
\* image event has been answered 400.
BadSignatureRejected ==
    /\ ~bypass
    /\ header = "digest_other"
    /\ \E i, j \in Idx : events[i].kind = "text" /\ events[j].kind = "image"
    /\ wpc = "done"
    /\ response = 400

\* C3: every validly signed delivery is answered 200, whatever the outcome
\* of the reply, push, content-fetch and generation calls.  Stated for the
\* deliveries whose failing LINE calls are rejections by the platform.
ValidDeliveryAnswered200 ==
    (~SignatureInvalid /\ wpc = "done" /\ OnlyPlatformErrors) => response = 200

\* C4: with the bypass flag set no signature verification is performed: a
\* request with an invalid or absent signature has its events dispatched
\* like a validly signed one and is answered 200, never 400 or an error.
BypassSkipsVerification ==
    (bypass /\ SignatureInvalid /\ wpc = "done") =>
        /\ response = 200
        /\ \A i \in Idx : events[i].kind \in {"text", "image"} => i \in invoked

\* C5: a failure while handling one event never prevents the handlers of
\* the later events of the same delivery from being invoked.  Stated for
\* the deliveries whose failing LINE calls are rejections by the platform.
SiblingsInvoked ==
    (~SignatureInvalid /\ wpc = "done" /\ OnlyPlatformErrors) =>
        \A i \in Idx : events[i].kind \in {"text", "image"} => i \in invoked

\* C6: in both handlers, if the acknowledgment reply_message fails, the
\* handler still performs the generation call and still attempts to push
\* the generated content to the event's source user (as far as the steps
\* before them, the content fetch, succeed).  Stated for an acknowledgment
\* rejected by the platform.
AckFailureContinues ==
    \A i \in Idx :
        (AckRejected(i) /\ EventDone(i)
            /\ ~Failed(i, FetchOps \cup {"NamedTemporaryFile"})) =>
            /\ CallsOf(i, GenerationOps) # <<>>
            /\ ~Failed(i, GenerationOps) =>
                \E k \in 1..Len(calls[i]) :
                    /\ calls[i][k].op = "push_message"
                    /\ calls[i][k].to = events[i].user_id
                    /\ calls[i][k].text = ExpectedRecipe(i)

\* C7: whenever a generation call raises (the recipe call of the text
\* handler, the vision or the recipe call of the image handler), the
\* handler attempts to deliver a message whose text is exactly the fixed
\* string of line 121, and no other apology text.
GenerationErrorApology ==
    \A i \in Idx : EventDone(i) =>
        \A k \in 1..Len(calls[i]) :
            (calls[i][k].op \in GenerationOps /\ calls[i][k].res # "ok") =>
                /\ \E m \in (k+1)..Len(calls[i]) :
                    /\ calls[i][m].op \in SendOps
                    /\ calls[i][m].text = GENERATION_APOLOGY
                /\ \A m \in (k+1)..Len(calls[i]) :
                    calls[i][m].text \in ApologyTexts =>
                        calls[i][m].text = GENERATION_APOLOGY

\* The units of content generated for event i: the messages built from the
\* text of its recipe call (generate_recipe_from_ingredients substitutes the
\* fixed string when the call of the image handler raises).
GeneratedUnits(i) ==
    LET g == CallsOf(i, {"chat_recipe"}) IN
    IF g = <<>> THEN <<>>
    ELSE IF g[1].res = "ok"
         THEN build_recipe_messages(strip(g[1].text), DEFAULT_MAX_CHARS)
    ELSE IF events[i].kind = "image"
         THEN build_recipe_messages(GENERATION_APOLOGY, DEFAULT_MAX_CHARS)
    ELSE <<>>

\* C8: when the reply-token send of an event fails, push delivery is the
\* fallback: the content of the event is generated and push_message is
\* attempted to the source user for each unit of it, in order, stopping at
\* the first push that fails.
ReplyFailureFallsBackToPush ==
    \A i \in Idx : (AckRejected(i) /\ EventDone(i)) =>
        LET units == GeneratedUnits(i)
            p == CallsOf(i, {"push_message"})
        IN  /\ events[i].kind = "text" => units # <<>>
            /\ Len(p) <= Len(units)
            /\ \A k \in 1..Len(p) :
                /\ p[k].text = units[k].text
                /\ p[k].to = events[i].user_id
                /\ k < Len(p) => p[k].res = "ok"
            /\ Len(p) < Len(units) => (p # <<>> /\ p[Len(p)].res # "ok")

\* C9: for an image event whose content fetch fails, no generation call is
\* attempted and a fixed apology message is sent to the source user.
FetchFailureApology ==
    \A i \in Idx :
        (events[i].kind = "image" /\ EventDone(i) /\ Failed(i, FetchOps)) =>
            /\ CallsOf(i, GenerationOps) = <<>>
            /\ \E k \in 1..Len(calls[i]) :
                /\ calls[i][k].op \in SendOps
                /\ calls[i][k].text \in ApologyTexts

\* C10: once the thread of an image event has terminated, by success or by
\* an exception at any step, the temp file it created no longer exists.
TempFileReleased ==
    \A i \in Idx : tpc[i] = "done" => tmpfiles[TmpPaths[i]] = NoFile

\* The number of calls of the given kinds in a log.
CountIn(log, ops) == Len(SelectSeq(log, LAMBDA c : c.op \in ops))

\* The calls that are not the reply-token send.
DeferredOps == {"NamedTemporaryFile", "push_message"} \cup FetchOps
                    \cup GenerationOps

\* C11: for an image event the handler returns to the request path as soon
\* as the acknowledgment has completed or failed with a platform error: while
\* the handler runs, no content fetch, generation call or push is made and
\* no step of the thread is taken; after the acknowledgment the handler's
\* next step is its return.  The steps of the detached thread leave the
\* request path (the worker's position and the response) unchanged.
ImageHandlerStep(i) ==
    /\ (i \in invoked /\ ~HandlerDone(i)) =>
            /\ CountIn(calls[i], DeferredOps) = 0
            /\ tpc[i] = "none"
            /\ CountIn(calls'[i], DeferredOps) = 0
    /\ (wpc = "handle_image_start" /\ cur = i /\ tpc'[i] # tpc[i]) =>
            /\ wpc' = "dispatch"
            /\ cur' = i + 1
            /\ response' = response
            /\ calls' = calls
    /\ (tpc[i] # "none" /\ (tpc'[i] # tpc[i] \/ calls'[i] # calls[i])) =>
            UNCHANGED worker

ImageHandlerDoesNotWait ==
    [][\A i \in Idx : events[i].kind = "image" => ImageHandlerStep(i)]_vars

\* C11 witness: the delivery has been answered 200 while the thread of one
\* image event has not yet taken a step and the thread of another has ended
\* on a failed content fetch.
AnsweredBeforeThreadsEnd ==
    /\ response = 200
    /\ \E i, j \in Idx :
        /\ events[i].kind = "image" /\ events[j].kind = "image"
        /\ tpc[i] = "tmpfile"
        /\ tpc[j] = "done" /\ Failed(j, {"get_message_content"})

\* The generation calls and the pushes of generated content in a log.
GeneratedWork(log) ==
    SelectSeq(log, LAMBDA c : \/ c.op \in GenerationOps
                              \/ c.op = "push_message" /\ c.text \notin ApologyTexts)

\* C12: for a text event, generation and the delivery of the generated
\* content happen off the request-handling path: the steps that make the
\* generation call or the push are not steps of the request worker, so the
\* response does not wait for them.
TextGenerationOffRequestPath ==
    [][\A i \in Idx :
        (events[i].kind = "text"
            /\ Len(GeneratedWork(calls'[i])) > Len(GeneratedWork(calls[i])))
        => UNCHANGED <<wpc, cur, response>>]_vars

\* The generation call of event i succeeded.
GenerationSucceeded(i) ==
    /\ CallsOf(i, GenerationOps) # <<>>
    /\ ~Failed(i, GenerationOps)

\* C13 as stated: for a text event whose generation call succeeds (the text
\* makes one unit), exactly one send is made for the event, it uses the
\* reply token, and its text is exactly the generated string.
OneReplyCarriesRecipe ==
    \A i \in Idx :
        (events[i].kind = "text" /\ HandlerDone(i) /\ GenerationSucceeded(i)) =>
            LET sends == CallsOf(i, SendOps)
                content == CallsOf(i, GenerationOps)[1].text
            IN  /\ Len(sends) = 1
                /\ sends[1].op = "reply_message"
                /\ sends[1].to = events[i].reply_token
                /\ sends[1].text \in {content, strip(content)}

\* C13 as amended: for a text event whose generation call succeeds, the
\* first send uses the reply token and carries the fixed acknowledgment; the
\* second is a push_message to the source user whose text is exactly the
\* generated string without its surrounding whitespace; no other send is
\* made unless that push fails, and then the only other send is the push of
\* the handler's apology.
AckReplyThenRecipePush ==
    \A i \in Idx :
        (events[i].kind = "text" /\ HandlerDone(i) /\ GenerationSucceeded(i)) =>
            LET sends == CallsOf(i, SendOps)
                content == CallsOf(i, GenerationOps)[1].text
                n == Len(content)
            IN  /\ Len(sends) \in {2, 3}
                /\ sends[1].op = "reply_message"
                /\ sends[1].to = events[i].reply_token
                /\ sends[1].text = TEXT_ACK
                /\ sends[1].res = "ok"
                /\ sends[2].op = "push_message"
                /\ sends[2].to = events[i].user_id
                /\ \E a, b \in 1..n :
                    /\ sends[2].text = SubSeq(content, a, b)
                    /\ \A k \in 1..n : (k < a \/ k > b) => content[k] \in WS
                    /\ content[a] \notin WS /\ content[b] \notin WS
                /\ Len(sends) = 3 <=> sends[2].res # "ok"
                /\ Len(sends) = 3 =>
                    /\ sends[3].op = "push_message"
                    /\ sends[3].to = events[i].user_id
                    /\ sends[3].text = HANDLER_APOLOGY

\* C13 witness: a text event handled with every call succeeding.
TextEventDelivered ==
    \E i \in Idx :
        /\ events[i].kind = "text"
        /\ HandlerDone(i)
        /\ Len(calls[i]) = 3
        /\ \A k \in 1..3 : calls[i][k].res = "ok"

\* ------------------------------------------------- claims on the chunker

RECURSIVE Concat(_)
Concat(units) == IF units = <<>> THEN <<>> ELSE Head(units) \o Concat(Tail(units))

IsBlank(x) == \A k \in 1..Len(x) : x[k] \in WS

\* The non-blank sentences of a text, in order, without their delimiters.
SentencesOf(text) ==
    SelectSeq(split(text, DELIM), LAMBDA x : ~IsBlank(x))

\* C14: for every text and every limit make_bubble_chunks drops no
\* non-empty sentence and keeps the order: the concatenation of the units,
\* split on the delimiter, is the sequence of the non-blank sentences of the
\* input with its newlines made spaces, each once.
ChunksKeepSentences ==
    cpc # "start" =>
        SentencesOf(Concat(bubbles)) = SentencesOf(replace_newlines(ctext))

\* C14 witness: a text with a newline and a blank sentence between two
\* non-blank ones, chunked into several units.
SeveralUnitsChunked ==
    /\ cpc = "chunked"
    /\ Len(bubbles) >= 2
    /\ \E k \in 1..Len(ctext) : ctext[k] = "\n"
    /\ LET segs == split(replace_newlines(ctext), DELIM)
       IN  \E k \in 1..(Len(segs) - 1) : IsBlank(segs[k])

\* C15: for max_chars >= 1 every unit has length <= max_chars,
\* except a unit made of a single sentence that alone is longer than
\* max_chars; a sentence of max_chars characters or less never makes an
\* oversized unit.
UnitsWithinLimit ==
    (cpc # "start" /\ climit >= 1) =>
        \A k \in 1..Len(bubbles) :
            \/ Len(bubbles[k]) <= climit
            \/ /\ Len(SentencesOf(bubbles[k])) = 1
               /\ Len(SentencesOf(bubbles[k])[1]) > climit

\* C17: each message the builder hands to push_message or reply_message has
\* a text no longer than its max_chars (apart from a single sentence that
\* cannot be split), and a text longer than the limit is split into several
\* messages.
BuilderRespectsLimit ==
    (cpc = "built" /\ climit >= 1) =>
        /\ \A k \in 1..Len(built) :
            \/ Len(built[k].text) <= climit
            \/ Len(SentencesOf(replace_newlines(built[k].text))) <= 1
        /\ (Len(ctext) > climit
                /\ Len(SentencesOf(replace_newlines(ctext))) >= 2)
            => Len(built) >= 2

\* ------------------------------------------ claims on sends and ordering

\* C16: once a push_message call of an event has failed, no further send
\* (push or reply) is attempted for that event.
PushFailureTerminal ==
    \A i \in Idx : \A j, k \in 1..Len(calls[i]) :
        (/\ j < k
         /\ calls[i][j].op = "push_message"
         /\ calls[i][j].res # "ok")
            => calls[i][k].op \notin SendOps

\* C18: for every event the acknowledgment reply_message is the first
\* external call: the first call logged for the event is the reply with the
\* event's own token and the handler's acknowledgment text, and neither the
\* generation step of handle_message nor the thread of handle_image starts
\* before it has been attempted.
AckIsFirstCall ==
    \A i \in Idx :
        /\ calls[i] # <<>> =>
            /\ calls[i][1].op = "reply_message"
            /\ calls[i][1].to = events[i].reply_token
            /\ calls[i][1].text =
                    IF events[i].kind = "text" THEN TEXT_ACK ELSE IMAGE_ACK
        /\ tpc[i] # "none" => calls[i] # <<>>
        /\ (cur = i /\ wpc \in {"handle_message_generate",
                                "handle_message_push",
                                "handle_message_except",
                                "handle_image_start"})
                => calls[i] # <<>>

\* C18 witness: a text event whose generation call was made and an image
\* event whose content was fetched.
GenerationAndFetchSeen ==
    \E i, j \in Idx :
        /\ events[i].kind = "text"
        /\ CallsOf(i, GenerationOps) # <<>>
        /\ events[j].kind = "image"
        /\ CallsOf(j, FetchOps) # <<>>

RecipePushedOk(i) == \E k \in 1..Len(calls[i]) :
    /\ calls[i][k].op = "push_message"
    /\ calls[i][k].res = "ok"
    /\ calls[i][k].text \notin ApologyTexts

ApologyPushAt(i, k) ==
    /\ calls[i][k].op = "push_message"
    /\ calls[i][k].text = HANDLER_APOLOGY

\* C19: for a text event, a successful push of the recipe and a push of the
\* handler's apology are never both made, and the apology push is attempted
\* only after an earlier call of the event (acknowledgment, generation or
\* recipe push) has failed.
RecipeXorApology ==
    \A i \in Idx : events[i].kind = "text" =>
        \A k \in 1..Len(calls[i]) : ApologyPushAt(i, k) =>
            /\ ~RecipePushedOk(i)
            /\ \E j \in 1..(k - 1) : calls[i][j].res # "ok"

\* C19 witness: a text event whose recipe push failed and whose apology was
\* pushed, next to a text event whose recipe push succeeded.
ApologyAfterFailedRecipePush ==
    \E i, j \in Idx :
        /\ events[i].kind = "text"
        /\ \E k \in 2..Len(calls[i]) :
            /\ ApologyPushAt(i, k)
            /\ calls[i][k - 1].op = "push_message"
            /\ calls[i][k - 1].res # "ok"
            /\ calls[i][k - 1].text = ExpectedRecipe(i)
        /\ events[j].kind = "text"
        /\ RecipePushedOk(j)

\* C20: in every interleaving of the worker and the threads, every push of
\* an event goes to the event's own user and carries a fixed apology or the
\* recipe derived from the event's own input; the content is fetched by the
\* event's own message id and the vision call reads the content of the
\* event's own image.
OwnInputsOnly ==
    \A i \in Idx : \A k \in 1..Len(calls[i]) :
        LET c == calls[i][k] IN
        /\ c.op = "push_message" =>
            /\ c.to = events[i].user_id
            /\ c.text \in ApologyTexts \cup {ExpectedRecipe(i)}
        /\ c.op \in FetchOps => c.to = events[i].message_id
        /\ c.op = "chat_vision" =>
            c.prompt = <<VISION_PROMPT, ContentOf(events[i].message_id)>>
        /\ (c.op = "chat_recipe" /\ events[i].kind = "text") =>
            c.prompt = <<PROMPT_HEAD>> \o strip(events[i].text)

\* C20 witness: two image events of different users in flight together: the
\* recipe of one has been pushed while the thread of the other, its file
\* written, has not ended.
PushedWhileOtherInFlight ==
    \E i, j \in Idx :
        /\ i # j
        /\ events[i].user_id # events[j].user_id
        /\ events[i].kind = "image"
        /\ events[j].kind = "image"
        /\ \E k \in 1..Len(calls[i]) :
            /\ calls[i][k].op = "push_message"
            /\ calls[i][k].res = "ok"
            /\ calls[i][k].text = ExpectedRecipe(i)
        /\ tpc[j] \notin {"none", "done"}
        /\ tmpfiles[TmpPaths[j]] = ContentOf(events[j].message_id)

====
